---- MODULE Spec2Model ----
(***************************************************************************)
(* The three-stage code-generation pipeline of src/agent/graph.py:         *)
(* planner_agent, architect_agent and coder_agent as functions of the      *)
(* run-time state and of what the LLM, the file system and the tool        *)
(* binding answer, and the graph that sequences them.                      *)
(*                                                                         *)
(* Python dicts are records whose DOMAIN is the set of keys present.       *)
(* The answers of the LLM and of the tools are inputs, drawn with \E.      *)
(***************************************************************************)
EXTENDS Integers, Sequences, FiniteSets, TLC

VARIABLES
    node,       \* the node the graph executes next, "END", or "raised"
    state,      \* the run-time state mapping handed to the next node
    out,        \* the dict the last executed node returned
    error,      \* the exception that left the last call, "none" when it returned
    step,       \* supersteps the graph has executed
    merge,      \* how the framework folds a node's output into the state
    trace,      \* the nodes executed so far, in order
    attempted,  \* the indices of implementation_steps the coder worked on, in order
    given,      \* the state the last executed node was called with
    asked,      \* what the LLM answered each planning stage, and the tier it ended in
    io,         \* how often read_file, the tool binding and the react agent were used
    last,       \* the read and the interaction of the last coder call
    doneAt      \* the number of the coder call that first reported "DONE", 0 if none

vars == <<node, state, given, out, error, step, merge, trace, attempted, asked, io, last, doneAt>>

-----------------------------------------------------------------------------
(* Bounds of the model *)

\* longest implementation_steps list among the short LLM answers
MaxSteps == 3
\* the long LLM answer has LongSteps tasks, enough to meet the recursion limit
LongSteps == 98
\* most files in a Plan the LLM answers with
MaxFiles == 1
\* calls of coder_agent the repeated-invocation driver makes beyond the first "DONE"
MaxExtraCalls == 2

\* agent.invoke(..., {"recursion_limit": 100})
RecursionLimit == 100

-----------------------------------------------------------------------------
(* Python values *)

PyNone == [py |-> "None"]

HasKey(d, k) == k \in DOMAIN d

\* dict.update: the keys of u win
DictUpdate(d, u) == [k \in (DOMAIN d) \cup (DOMAIN u) |-> IF k \in DOMAIN u THEN u[k] ELSE d[k]]

EmptyDict == [k \in {} |-> PyNone]

Raise == [kind |-> "raise"]
Value(v) == [kind |-> "value", value |-> v]

-----------------------------------------------------------------------------
(* The data model: Plan, ImplementationTask, TaskPlan, CoderState *)

PlanFields == {"name", "description", "techstack", "features", "files"}
TaskPlanFields == {"implementation_steps"}

\* Plan(**d): the fields of the schema, taken from d; extra keys are dropped
PlanValid(d) == d # PyNone /\ PlanFields \subseteq DOMAIN d
PlanFromDict(d) == [k \in PlanFields |-> d[k]]

\* TaskPlan(**d)
TaskPlanValid(d) == d # PyNone /\ TaskPlanFields \subseteq DOMAIN d
TaskPlanFromDict(d) == [k \in TaskPlanFields |-> d[k]]

\* CoderState(task_plan=tp, current_step_idx=i)
CoderState(tp, i) == [task_plan |-> tp, current_step_idx |-> i]

FileNames == <<"index.html", "styles.css", "script.js">>

\* variant: the fallback Plan listing the script before the page
DefaultPlanScriptFirst ==
    [name |-> "Scientific Calculator",
     description |-> "A colorful scientific calculator",
     techstack |-> "html,css,javascript",
     features |-> <<"arithmetic", "scientific functions", "colorful UI">>,
     files |-> << [path |-> "script.js", purpose |-> "Calculator logic"],
                  [path |-> "index.html", purpose |-> "Main HTML structure"],
                  [path |-> "styles.css", purpose |-> "Styling and layout"] >>]

\* the Plan of planner_agent's last fallback
DefaultPlan ==
    [name |-> "Scientific Calculator",
     description |-> "A colorful scientific calculator",
     techstack |-> "html,css,javascript",
     features |-> <<"arithmetic", "scientific functions", "colorful UI">>,
     files |-> << [path |-> "index.html", purpose |-> "Main HTML structure"],
                  [path |-> "styles.css", purpose |-> "Styling and layout"],
                  [path |-> "script.js", purpose |-> "Calculator logic"] >>]

\* the TaskPlan of architect_agent's last fallback, before the plan is attached
DefaultTaskPlan ==
    [implementation_steps |->
        << [filepath |-> "index.html",
            task_description |-> "Create the HTML structure for a scientific calculator with display and button grid"],
           [filepath |-> "styles.css",
            task_description |-> "Add gradient background, style the calculator layout, and create colorful buttons with hover effects"],
           [filepath |-> "script.js",
            task_description |-> "Implement calculator logic with arithmetic and scientific functions"] >>]

-----------------------------------------------------------------------------
(* What the environment can answer *)

UserPrompts == {"weather app", "todo list"}

\* a Plan the LLM answers with: n files
LLMPlan(n) ==
    [name |-> "Weather App",
     description |-> "A single-page weather app",
     techstack |-> "html,css,javascript",
     features |-> <<"search", "current weather">>,
     files |-> [i \in 1..n |-> [path |-> FileNames[i], purpose |-> "part of the app"]]]

LLMPlans == {LLMPlan(n) : n \in 0..MaxFiles}

\* the JSON object the freeform path parses; the LLM may add keys of its own
PlanJson(p) == DictUpdate(p, [notes |-> "as requested"])

\* freeform answers: a full object, an object without "files", JSON null
PlanDicts ==
    {PlanJson(p) : p \in LLMPlans}
        \cup {[name |-> "Weather App", description |-> "no file list"], PyNone}

TaskTexts == <<"Write the page markup", "Write the style rules", "Write the fetch logic">>

\* the i-th task of an LLM answer: the three files, over and over
LLMTask(i) ==
    [filepath |-> FileNames[((i - 1) % 3) + 1],
     task_description |-> TaskTexts[((i - 1) % 3) + 1]]

LLMTaskPlan(n) == [implementation_steps |-> [i \in 1..n |-> LLMTask(i)]]

\* a TaskPlan the LLM answers with in another order: script first
ScriptFirst == [implementation_steps |-> <<LLMTask(3), LLMTask(1), LLMTask(2)>>]

ShortTaskPlans == {LLMTaskPlan(n) : n \in 0..MaxSteps} \cup {ScriptFirst}

LLMTaskPlans == ShortTaskPlans \cup {LLMTaskPlan(LongSteps)}

TaskPlanJson(tp) == DictUpdate(tp, [notes |-> "as requested"])

TaskPlanDicts ==
    {TaskPlanJson(tp) : tp \in ShortTaskPlans} \cup {[tasks |-> <<>>], PyNone}

\* llm.with_structured_output(Schema).invoke: raises, or returns an instance, or None
StructuredAnswers(instances) == {Raise, Value(PyNone)} \cup {Value(v) : v \in instances}

\* (llm | parser).invoke: raises (the call or the JSON parse), or returns parsed JSON
FreeformAnswers(dicts) == {Raise} \cup {Value(d) : d \in dicts}

\* read_file.invoke: raises when the file does not exist, or returns its text
ReadAnswers == {Raise, Value("<html>")}

Outcomes == {"ok", "raise"}

-----------------------------------------------------------------------------
(* planner_agent *)

\* variant: the freeform answer is preferred whenever it makes a Plan
PlannerRespFreeformFirst(a, b) ==
    IF b.kind # "raise" /\ PlanValid(b.value) THEN PlanFromDict(b.value)
    ELSE IF a.kind # "raise" THEN a.value
    ELSE DefaultPlan

\* the try/except chain: structured output, then freeform JSON, then the default
PlannerResp(a, b) ==
    IF a.kind # "raise" THEN a.value
    ELSE IF b.kind # "raise" /\ PlanValid(b.value) THEN PlanFromDict(b.value)
    ELSE DefaultPlan

PlannerTier(a, b) ==
    IF a.kind # "raise" THEN "structured"
    ELSE IF b.kind # "raise" /\ PlanValid(b.value) THEN "freeform"
    ELSE "default"

\* planner_agent(state), the LLM answering a to the structured call and b to the freeform one
planner_agent(s, a, b) ==
    IF ~HasKey(s, "user_prompt") THEN [exc |-> "KeyError", ret |-> EmptyDict]
    ELSE LET resp == PlannerResp(a, b) IN
         IF resp = PyNone THEN [exc |-> "ValueError", ret |-> EmptyDict]
         ELSE [exc |-> "none", ret |-> [plan |-> resp]]

-----------------------------------------------------------------------------
(* architect_agent *)

ArchitectResp(a, b) ==
    IF a.kind # "raise" THEN a.value
    ELSE IF b.kind # "raise" /\ TaskPlanValid(b.value) THEN TaskPlanFromDict(b.value)
    ELSE DefaultTaskPlan

ArchitectTier(a, b) ==
    IF a.kind # "raise" THEN "structured"
    ELSE IF b.kind # "raise" /\ TaskPlanValid(b.value) THEN "freeform"
    ELSE "default"

\* variant: the back-reference is never attached
AttachNothing(resp, plan) == resp

\* resp.plan = plan
AttachPlan(resp, plan) == DictUpdate(resp, [plan |-> plan])

architect_agent(s, a, b) ==
    IF ~HasKey(s, "plan") THEN [exc |-> "KeyError", ret |-> EmptyDict]
    ELSE LET resp == ArchitectResp(a, b) IN
         IF resp = PyNone THEN [exc |-> "ValueError", ret |-> EmptyDict]
         ELSE [exc |-> "none", ret |-> [task_plan |-> AttachPlan(resp, s.plan)]]

-----------------------------------------------------------------------------
(* coder_agent *)

\* variant: a fresh CoderState whenever the state holds a task_plan
CoderStateOfFresh(s) ==
    IF HasKey(s, "task_plan") THEN CoderState(s.task_plan, 0) ELSE s.coder_state

\* state.get("coder_state"), created with cursor 0 from state["task_plan"] when absent
CoderStateOf(s) ==
    IF HasKey(s, "coder_state") THEN s.coder_state ELSE CoderState(s.task_plan, 0)

StepsOf(cs) == cs.task_plan.implementation_steps

\* variant: the cursor has to pass the end of the list
ExhaustedStrict(cs) == cs.current_step_idx > Len(StepsOf(cs))

\* coder_state.current_step_idx >= len(steps)
Exhausted(cs) == cs.current_step_idx >= Len(StepsOf(cs))

\* variant: the early return moves the cursor on as well
TerminalReturnAdvancing(cs) ==
    [coder_state |-> [cs EXCEPT !.current_step_idx = @ + 1], status |-> "DONE"]

\* the early return
TerminalReturn(cs) == [coder_state |-> cs, status |-> "DONE"]

\* try: read_file.invoke(...)  except: ""
ExistingContent(rd) == IF rd.kind = "raise" THEN "" ELSE rd.value

\* the per-task user prompt
CoderUserPrompt(task, existing) ==
    [task |-> task.task_description, file |-> task.filepath, existing |-> existing,
     reminder |-> "Use the write_file tool"]

\* llm.bind_tools(...) and create_react_agent(...) stand before the try block:
\* what they raise leaves coder_agent
SetupResult(setup) == IF setup = "raise" THEN "propagated" ELSE "returned"

\* try: react_agent.invoke(...)  except Exception as e: print(...)
InvokeResult(inv) == IF inv = "raise" THEN "caught" ELSE "returned"

\* variant: the cursor is left where it was
AdvanceNot(cs) == cs

\* variant: the task just worked on is taken off the list, the cursor moved on
AdvancePopping(cs) ==
    [cs EXCEPT !.current_step_idx = @ + 1,
               !.task_plan.implementation_steps = Tail(@)]

\* variant: the cursor moves two on
AdvanceTwice(cs) == [cs EXCEPT !.current_step_idx = @ + 2]

\* coder_state.current_step_idx += 1
Advance(cs) == [cs EXCEPT !.current_step_idx = @ + 1]

\* variant: the call that executes the last task reports "DONE" itself
StepReturnDoneAtEnd(cs) ==
    IF cs.current_step_idx + 1 >= Len(StepsOf(cs))
    THEN [coder_state |-> [cs EXCEPT !.current_step_idx = @ + 1], status |-> "DONE"]
    ELSE [coder_state |-> [cs EXCEPT !.current_step_idx = @ + 1]]

\* variant: every return carries a status
StepReturnWithStatus(cs) ==
    [coder_state |-> [cs EXCEPT !.current_step_idx = @ + 1], status |-> "IN_PROGRESS"]

\* the final return
StepReturn(cs) == [coder_state |-> Advance(cs)]

NoCall ==
    [entered |-> -1, task |-> <<>>, read |-> "none", prompt |-> <<>>,
     setup |-> "none", interaction |-> "none"]

NoUse == [reads |-> 0, binds |-> 0, invokes |-> 0, threw |-> FALSE]

\* coder_agent(state): rd is what read_file answers, setup whether the tool binding
\* and the agent construction succeed, inv whether react_agent.invoke does.
\* fx tells what the call did, use the external calls it made.
coder_agent(s, rd, setup, inv) ==
    IF ~HasKey(s, "coder_state") /\ ~HasKey(s, "task_plan")
    THEN [exc |-> "KeyError", ret |-> EmptyDict, fx |-> NoCall, use |-> NoUse]
    ELSE
    LET cs == CoderStateOf(s)
        idx == cs.current_step_idx
        here == [NoCall EXCEPT !.entered = idx]
    IN  IF Exhausted(cs)
        THEN [exc |-> "none", ret |-> TerminalReturn(cs), fx |-> here, use |-> NoUse]
        ELSE IF (idx + 1) \notin DOMAIN StepsOf(cs)
        THEN [exc |-> "IndexError", ret |-> EmptyDict, fx |-> here, use |-> NoUse]
        ELSE
        LET current_task == StepsOf(cs)[idx + 1]
            existing_content == ExistingContent(rd)
            read == [here EXCEPT !.task = <<idx>>, !.read = rd.kind,
                                 !.prompt = <<CoderUserPrompt(current_task, existing_content)>>,
                                 !.setup = SetupResult(setup)]
        IN  IF SetupResult(setup) = "propagated"
            THEN [exc |-> "ToolSetupError", ret |-> EmptyDict, fx |-> read,
                  use |-> [reads |-> 1, binds |-> 1, invokes |-> 0, threw |-> FALSE]]
            ELSE IF InvokeResult(inv) = "propagated"
            THEN [exc |-> "InteractionError", ret |-> EmptyDict,
                  fx |-> [read EXCEPT !.interaction = InvokeResult(inv)],
                  use |-> [reads |-> 1, binds |-> 1, invokes |-> 1, threw |-> inv = "raise"]]
            ELSE [exc |-> "none", ret |-> StepReturn(cs),
                  fx |-> [read EXCEPT !.interaction = InvokeResult(inv)],
                  use |-> [reads |-> 1, binds |-> 1, invokes |-> 1, threw |-> inv = "raise"]]

-----------------------------------------------------------------------------
(* The graph: StateGraph(dict), its edges, and agent.invoke *)

\* how the framework folds a node's returned dict into the state it keeps:
\* key by key, or the returned dict taking the place of the state
Fold(s, ret) == IF merge THEN DictUpdate(s, ret) ELSE ret

\* variant: the edge looks at the cursor instead of the status
RouteOnCursor(s) ==
    IF HasKey(s, "coder_state")
          /\ s.coder_state.current_step_idx >= Len(s.coder_state.task_plan.implementation_steps)
    THEN "END" ELSE "coder"

\* lambda s: "END" if s.get("status") == "DONE" else "coder"
Route(s) == IF HasKey(s, "status") /\ s.status = "DONE" THEN "END" ELSE "coder"

\* variant: the planner is wired straight to the coder
NextNodeNoArchitect(n, s) ==
    IF n = "planner" THEN "coder"
    ELSE IF n = "architect" THEN "coder"
    ELSE Route(s)

\* add_edge("planner", "architect"), add_edge("architect", "coder"),
\* add_conditional_edges("coder", ...)
NextNode(n, s) ==
    IF n = "planner" THEN "architect"
    ELSE IF n = "architect" THEN "coder"
    ELSE Route(s)

CoderRuns(tr) == Cardinality({i \in DOMAIN tr : tr[i] = "coder"})

\* the number of the coder call that first reported "DONE"
DoneAt(old, ret, tr) ==
    IF old = 0 /\ HasKey(ret, "status") /\ ret.status = "DONE" THEN CoderRuns(tr) ELSE old

AddUse(u, v) ==
    [reads |-> u.reads + v.reads, binds |-> u.binds + v.binds,
     invokes |-> u.invokes + v.invokes, threw |-> u.threw \/ v.threw]

Unasked == [kind |-> "unasked"]

NotAsked == [a |-> Unasked, b |-> Unasked, tier |-> "none"]

NoneAsked == [planner |-> NotAsked, architect |-> NotAsked]

\* the answers a planning stage got: the freeform call is made only in the except branch
Asked(a, b, t) == [a |-> a, b |-> IF a.kind = "raise" THEN b ELSE Unasked, tier |-> t]

\* agent.invoke({"user_prompt": ...}, {"recursion_limit": 100}); set_entry_point("planner")
Init ==
    /\ node = "planner"
    /\ state \in {[user_prompt |-> u] : u \in UserPrompts}
    /\ given = EmptyDict
    /\ out = EmptyDict
    /\ error = "none"
    /\ step = 0
    /\ merge \in BOOLEAN
    /\ trace = <<>>
    /\ attempted = <<>>
    /\ asked = NoneAsked
    /\ io = NoUse
    /\ last = NoCall
    /\ doneAt = 0

\* what a node's call leaves behind in the graph: the folded state and the next
\* node when it returned, the exception surfaced to the caller when it raised
Finish(n, r) ==
    /\ trace' = Append(trace, n)
    /\ given' = state
    /\ step' = step + 1
    /\ error' = r.exc
    /\ out' = r.ret
    /\ state' = IF r.exc = "none" THEN Fold(state, r.ret) ELSE state
    /\ node' = IF r.exc = "none" THEN NextNode(n, Fold(state, r.ret)) ELSE "raised"
    /\ UNCHANGED merge

Planner ==
    /\ node = "planner"
    /\ step < RecursionLimit
    /\ \E a \in StructuredAnswers(LLMPlans), b \in FreeformAnswers(PlanDicts) :
          /\ Finish("planner", planner_agent(state, a, b))
          /\ asked' = [asked EXCEPT !.planner = Asked(a, b, PlannerTier(a, b))]
    /\ UNCHANGED <<attempted, io, last, doneAt>>

Architect ==
    /\ node = "architect"
    /\ step < RecursionLimit
    /\ \E a \in StructuredAnswers(LLMTaskPlans), b \in FreeformAnswers(TaskPlanDicts) :
          /\ Finish("architect", architect_agent(state, a, b))
          /\ asked' = [asked EXCEPT !.architect = Asked(a, b, ArchitectTier(a, b))]
    /\ UNCHANGED <<attempted, io, last, doneAt>>

\* what a call of coder_agent leaves behind besides its return value
CoderEffects(r) ==
    /\ attempted' = attempted \o r.fx.task
    /\ io' = AddUse(io, r.use)
    /\ last' = r.fx
    /\ doneAt' = DoneAt(doneAt, r.ret, Append(trace, "coder"))
    /\ UNCHANGED asked

Coder ==
    /\ node = "coder"
    /\ step < RecursionLimit
    /\ \E rd \in ReadAnswers, setup \in Outcomes, inv \in Outcomes :
          LET r == coder_agent(state, rd, setup, inv) IN
          /\ Finish("coder", r)
          /\ CoderEffects(r)

\* the recursion limit is used up before the graph reached END
RecursionStop ==
    /\ node \in {"planner", "architect", "coder"}
    /\ step >= RecursionLimit
    /\ node' = "raised"
    /\ error' = "GraphRecursionError"
    /\ UNCHANGED <<state, given, out, step, merge, trace, attempted, asked, io, last, doneAt>>

Next == Planner \/ Architect \/ Coder \/ RecursionStop

Spec == Init /\ [][Next]_vars

-----------------------------------------------------------------------------
(* coder_agent called again and again, each call's output fed back in *)

InitCoder ==
    /\ node = "coder"
    /\ state \in {[task_plan |-> AttachPlan(tp, p)] :
                      tp \in LLMTaskPlans \cup {DefaultTaskPlan}, p \in {DefaultPlan, LLMPlan(1)}}
    /\ given = EmptyDict
    /\ out = EmptyDict
    /\ error = "none"
    /\ step = 0
    /\ merge \in BOOLEAN
    /\ trace = <<>>
    /\ attempted = <<>>
    /\ asked = NoneAsked
    /\ io = NoUse
    /\ last = NoCall
    /\ doneAt = 0

\* one more call, until MaxExtraCalls calls after the first "DONE"; a call that
\* raised has no output to feed back
InvokeCoder ==
    /\ node = "coder"
    /\ error = "none"
    /\ doneAt = 0 \/ CoderRuns(trace) < doneAt + MaxExtraCalls
    /\ \E rd \in ReadAnswers, setup \in Outcomes, inv \in Outcomes :
          LET r == coder_agent(state, rd, setup, inv) IN
          /\ trace' = Append(trace, "coder")
          /\ given' = state
          /\ error' = r.exc
          /\ out' = r.ret
          /\ state' = IF r.exc = "none" THEN Fold(state, r.ret) ELSE state
          /\ CoderEffects(r)
    /\ UNCHANGED <<node, step, merge>>

NextCoder == InvokeCoder

SpecCoder == InitCoder /\ [][NextCoder]_vars

-----------------------------------------------------------------------------
(* What the properties speak of *)

HasTaskPlan(s) == HasKey(s, "coder_state") \/ HasKey(s, "task_plan")

\* the implementation_steps the coder works through in state s
Steps(s) ==
    IF HasKey(s, "coder_state") THEN s.coder_state.task_plan.implementation_steps
    ELSE s.task_plan.implementation_steps

\* N
NSteps(s) == Len(Steps(s))

\* current_step_idx, 0 while no coder_state exists
Cursor(s) == IF HasKey(s, "coder_state") THEN s.coder_state.current_step_idx ELSE 0

LastNode == IF trace = <<>> THEN "none" ELSE trace[Len(trace)]

ReportsDone(d) == HasKey(d, "status") /\ d.status = "DONE"

\* the freeform path failed: the call or the parse raised, or the constructor did
PlanFreeformFailed(b) == b.kind = "raise" \/ ~PlanValid(b.value)
TaskPlanFreeformFailed(b) == b.kind = "raise" \/ ~TaskPlanValid(b.value)

-----------------------------------------------------------------------------
(* C1 *)

\* C1 as stated: after exactly N calls that returned, "DONE" has been reported (by
\* the N-th call) and current_step_idx is N.
C1_DoneInNCalls ==
    (error = "none" /\ CoderRuns(trace) = NSteps(state))
        => (doneAt = NSteps(state) /\ Cursor(state) = NSteps(state))

\* C1 amended: under repeated invocation from a state without coder_state, "DONE"
\* is reported first by call N+1 and by no earlier call, current_step_idx is N at
\* that point, and once N+1 calls have returned it has been reported, whether the
\* interactions on the way succeeded or threw.
C1_DoneInNPlusOneCalls ==
    /\ doneAt # 0 => (doneAt = NSteps(state) + 1 /\ Cursor(state) = NSteps(state))
    /\ (error = "none" /\ CoderRuns(trace) >= NSteps(state) + 1) => doneAt # 0
    /\ (error = "none" /\ CoderRuns(trace) <= NSteps(state)) => Cursor(state) = CoderRuns(trace)

\* three tasks, an interaction that threw on the way, "DONE" reported
C1_Witness ==
    doneAt # 0 /\ NSteps(state) = 3 /\ io.invokes = 3 /\ io.threw

-----------------------------------------------------------------------------
(* C2 *)

\* C2: once a call of coder_agent has reported "DONE", the next call on the
\* resulting state reports "DONE" again, leaves current_step_idx unchanged and not
\* past the length of implementation_steps, calls neither read_file nor the tool
\* binding nor the react agent, and raises nothing.
C2_DoneIsIdempotent ==
    [][ (ReportsDone(out) /\ trace' # trace)
            => /\ error' = "none"
               /\ ReportsDone(out')
               /\ Cursor(state') = Cursor(state)
               /\ Cursor(state') <= NSteps(state')
               /\ io' = io ]_vars

\* a call was made after "DONE" had been reported, on a plan with tasks
C2_Witness ==
    doneAt # 0 /\ CoderRuns(trace) > doneAt /\ NSteps(state) >= 1

-----------------------------------------------------------------------------
(* C3 *)

\* C3: the stages run in the order planner, architect, coder: every coder
\* execution comes after an architect execution and every architect execution
\* after a planner execution; the architect is entered with a plan in the state,
\* the coder is first entered with a task_plan in the state, and neither ever
\* misses its input.
C3_StageOrder ==
    /\ \A i \in DOMAIN trace :
          /\ trace[i] = "architect" => \E j \in 1..(i - 1) : trace[j] = "planner"
          /\ trace[i] = "coder" => \E j \in 1..(i - 1) : trace[j] = "architect"
    /\ node = "architect" => (HasKey(state, "plan") /\ state.plan # PyNone)
    /\ (node = "coder" /\ LastNode = "architect")
          => (HasKey(state, "task_plan") /\ state.task_plan # PyNone)
    /\ node = "coder" => HasTaskPlan(state)
    /\ error # "KeyError"

\* the coder has executed
C3_Witness == Len(trace) >= 3 /\ trace[3] = "coder" /\ error = "none"

-----------------------------------------------------------------------------
(* C4 *)

\* C4: when the structured call raised and the freeform path failed, planner_agent
\* returns, without raising, the fixed default Plan, whatever the user_prompt.
C4_PlannerDefault ==
    (LastNode = "planner" /\ asked.planner.a.kind = "raise"
        /\ PlanFreeformFailed(asked.planner.b))
    => /\ error = "none"
       /\ DOMAIN out = {"plan"}
       /\ DOMAIN out.plan = PlanFields
       /\ out.plan.name = "Scientific Calculator"
       /\ out.plan.description = "A colorful scientific calculator"
       /\ out.plan.techstack = "html,css,javascript"
       /\ out.plan.features = <<"arithmetic", "scientific functions", "colorful UI">>
       /\ Len(out.plan.files) = 3
       /\ [i \in 1..3 |-> out.plan.files[i].path] = <<"index.html", "styles.css", "script.js">>

\* both tiers failed, the second by an object that is no Plan
C4_Witness ==
    /\ LastNode = "planner" /\ asked.planner.a.kind = "raise"
    /\ asked.planner.b.kind = "value" /\ ~PlanValid(asked.planner.b.value)
    /\ given.user_prompt = "weather app"
    /\ HasKey(out, "plan")

-----------------------------------------------------------------------------
(* C5 *)

\* C5: when the structured call raised and the freeform path failed,
\* architect_agent returns a TaskPlan of exactly 3 steps, index.html, styles.css,
\* script.js in this order, each with a non-empty task_description, whose plan is
\* the Plan of the input state.
C5_ArchitectDefault ==
    (LastNode = "architect" /\ asked.architect.a.kind = "raise"
        /\ TaskPlanFreeformFailed(asked.architect.b))
    => /\ error = "none"
       /\ HasKey(out, "task_plan")
       /\ Len(out.task_plan.implementation_steps) = 3
       /\ [i \in 1..3 |-> out.task_plan.implementation_steps[i].filepath]
             = <<"index.html", "styles.css", "script.js">>
       /\ \A i \in 1..3 : out.task_plan.implementation_steps[i].task_description # ""
       /\ HasKey(out.task_plan, "plan")
       /\ out.task_plan.plan = given.plan

\* both tiers failed, on a Plan the LLM made
C5_Witness ==
    /\ LastNode = "architect" /\ asked.architect.a.kind = "raise"
    /\ asked.architect.b.kind = "raise"
    /\ HasKey(out, "task_plan")
    /\ given.plan.name = "Weather App"

-----------------------------------------------------------------------------
(* C6 *)

\* C6: the coder works on the tasks in list order: the k-th execution that takes
\* up a task takes up index k-1, so none is skipped or taken twice, and each
\* execution takes up at most one task.
C6_TasksInOrder ==
    /\ \A k \in DOMAIN attempted : attempted[k] = k - 1
    /\ Len(attempted) <= CoderRuns(trace)
    /\ HasTaskPlan(state) => Len(attempted) <= NSteps(state)

\* three tasks have been taken up
C6_Witness == Len(attempted) >= 3 /\ node = "END"

-----------------------------------------------------------------------------
(* C7 *)

\* C7: a coder execution that took up a task returns normally, whatever fails in
\* the tool binding, the agent construction or the agent invocation.
C7_CoderNeverRaises ==
    (LastNode = "coder" /\ last.task # <<>>) => error \in {"none", "GraphRecursionError"}

-----------------------------------------------------------------------------
(* C8 *)

\* C8: whatever the LLM answers, planner_agent returns a state update with a Plan
\* and architect_agent one with a TaskPlan; neither raises.
C8_PlanningNeverFails ==
    /\ LastNode = "planner"
          => (error = "none" /\ HasKey(out, "plan") /\ DOMAIN out.plan = PlanFields)
    /\ LastNode = "architect"
          => (error = "none" /\ HasKey(out, "task_plan")
                /\ HasKey(out.task_plan, "implementation_steps"))

-----------------------------------------------------------------------------
(* C9 *)

\* C9: when read_file fails, the existing content is "", the failure is not
\* propagated, the interaction is still attempted and the cursor advances by one.
C9_ReadMissContinues ==
    (LastNode = "coder" /\ last.read = "raise")
    => /\ last.prompt[1].existing = ""
       /\ error \in {"none", "GraphRecursionError"}
       /\ last.interaction # "none"
       /\ Cursor(state) = last.entered + 1

-----------------------------------------------------------------------------
(* C10 *)

\* C10: a run that has a TaskPlan ends in the terminal state, all N tasks taken up.
C10_RunEndsAfterAllTasks ==
    (HasTaskPlan(state) /\ node \notin {"planner", "architect", "coder"})
    => (node = "END" /\ attempted = [i \in 1..NSteps(state) |-> i - 1])

-----------------------------------------------------------------------------
(* C11 *)

\* C11: a call of coder_agent entered with current_step_idx < N that returns has
\* advanced the cursor by exactly one, whether the interaction returned or threw;
\* no task is taken up a second time in the run.
C11_CursorAdvancesByOne ==
    /\ (LastNode = "coder" /\ error = "none" /\ last.entered < NSteps(state))
          => /\ Cursor(given) = last.entered
             /\ Cursor(state) = last.entered + 1
             /\ last.interaction \in {"returned", "caught"}
    /\ \A i, j \in DOMAIN attempted : attempted[i] = attempted[j] => i = j

\* the last interaction threw, the call returned, and an earlier one threw or not
C11_Witness ==
    /\ LastNode = "coder" /\ error = "none" /\ last.interaction = "caught"
    /\ Len(attempted) >= 2

-----------------------------------------------------------------------------
(* C12 *)

\* C12: the graph goes from coder to the terminal state only on an output that
\* carries status "DONE", which it does only with current_step_idx at the length
\* of implementation_steps; after an output without "DONE" no node but coder runs.
C12_ExitOnlyOnDone ==
    /\ node = "END"
          => (LastNode = "coder" /\ ReportsDone(out) /\ Cursor(state) = NSteps(state))
    /\ (LastNode = "coder" /\ ReportsDone(out)) => Cursor(state) = NSteps(state)
    /\ (LastNode = "coder" /\ error = "none" /\ ~ReportsDone(out)) => node = "coder"
    /\ \A i \in DOMAIN trace :
          (trace[i] = "coder" /\ i < Len(trace)) => trace[i + 1] = "coder"

\* the coder looped and then the graph ended
C12_Witness == node = "END" /\ CoderRuns(trace) >= 3

-----------------------------------------------------------------------------
(* C13 *)

\* C13: a call of coder_agent that takes up a task, the last task included,
\* returns an output without a status; "DONE" is in the output exactly of the
\* calls entered with current_step_idx >= N.
C13_StatusOnlyWhenExhausted ==
    (LastNode = "coder" /\ error = "none")
    => /\ last.task # <<>> => (~HasKey(out, "status") /\ DOMAIN out = {"coder_state"})
       /\ ReportsDone(out) <=> last.entered >= NSteps(state)
       /\ ReportsDone(out) => last.task = <<>>

\* the call that took up the last task has returned
C13_Witness ==
    /\ LastNode = "coder" /\ error = "none"
    /\ NSteps(state) >= 2 /\ last.task = <<NSteps(state) - 1>>

-----------------------------------------------------------------------------
(* C14 *)

\* C14: in planner_agent and architect_agent the tiers are tried in order: a value
\* the structured call returned is the stage's output whatever the freeform call
\* would have answered; the freeform result is the output only after the
\* structured call raised; the default is the output only after both failed.
C14_TiersInOrder ==
    /\ LastNode = "planner" =>
          LET q == asked.planner IN
          /\ (q.a.kind = "value" /\ q.a.value # PyNone)
                => (error = "none" /\ out.plan = q.a.value /\ q.tier = "structured")
          /\ (q.a.kind = "raise" /\ ~PlanFreeformFailed(q.b))
                => /\ error = "none" /\ q.tier = "freeform"
                   /\ \A k \in PlanFields : out.plan[k] = q.b.value[k]
          /\ (error = "none" /\ out.plan.name = "Scientific Calculator")
                => (q.a.kind = "raise" /\ PlanFreeformFailed(q.b) /\ q.tier = "default")
          /\ q.tier \in {"freeform", "default"} => q.a.kind = "raise"
    /\ LastNode = "architect" =>
          LET q == asked.architect IN
          /\ (q.a.kind = "value" /\ q.a.value # PyNone)
                => /\ error = "none" /\ q.tier = "structured"
                   /\ out.task_plan.implementation_steps = q.a.value.implementation_steps
          /\ (q.a.kind = "raise" /\ ~TaskPlanFreeformFailed(q.b))
                => /\ error = "none" /\ q.tier = "freeform"
                   /\ out.task_plan.implementation_steps = q.b.value.implementation_steps
          /\ (error = "none"
                /\ out.task_plan.implementation_steps = DefaultTaskPlan.implementation_steps)
                => (q.a.kind = "raise" /\ TaskPlanFreeformFailed(q.b) /\ q.tier = "default")
          /\ q.tier \in {"freeform", "default"} => q.a.kind = "raise"

\* the planner ended in the first tier, the architect in the second
C14_Witness ==
    /\ LastNode = "architect" /\ error = "none"
    /\ asked.planner.a.kind = "value"
    /\ asked.architect.a.kind = "raise" /\ asked.architect.b.kind = "value"
    /\ Len(out.task_plan.implementation_steps) = 2

-----------------------------------------------------------------------------
(* C15 *)

Runs(n) == Cardinality({i \in DOMAIN trace : trace[i] = n})

\* C15: the planner and the architect never execute twice, and a run that has
\* ended has executed each of them exactly once (so one Plan and one TaskPlan
\* were produced); only the coder executes more often.
C15_PlanningStagesOnce ==
    /\ Runs("planner") <= 1
    /\ Runs("architect") <= 1
    /\ node \in {"END", "raised"} => (Runs("planner") = 1 /\ Runs("architect") = 1)

-----------------------------------------------------------------------------
(* C16 *)

\* the TaskPlan the coder works on in state s
TaskPlanIn(s) == IF HasKey(s, "coder_state") THEN s.coder_state.task_plan ELSE s.task_plan

\* C16: the coder is handed the TaskPlan the architect returned, and no execution
\* of the coder changes it: the implementation_steps (length, order, each
\* filepath and task_description) and the attached Plan stay what they were.
C16_CoderKeepsTaskPlan ==
    /\ [](LastNode = "architect" /\ error = "none" => TaskPlanIn(state) = out.task_plan)
    /\ [][ (node = "coder" /\ trace' # trace)
              => /\ TaskPlanIn(state') = TaskPlanIn(state)
                 /\ HasKey(TaskPlanIn(state'), "plan") ]_vars

\* the coder worked through an LLM-made plan attached to the default Plan
C16_Witness ==
    /\ node = "END" /\ Len(attempted) = 3
    /\ TaskPlanIn(state).plan.name = "Scientific Calculator"
    /\ TaskPlanIn(state).implementation_steps[1].filepath = "script.js"

-----------------------------------------------------------------------------
(* C17 *)

\* C17 as stated: with an empty files list in the Plan the coder takes up no task
\* and makes no tool-use interaction.
C17_EmptyFilesNoTasks ==
    (HasTaskPlan(state) /\ Len(TaskPlanIn(state).plan.files) = 0)
        => (attempted = <<>> /\ io.invokes = 0)

\* C17 amended: with an empty implementation_steps list in the TaskPlan the coder
\* takes up no task and makes no read, tool binding or interaction; its first
\* execution reports "DONE" and the graph ends.
C17_EmptyStepsNoTasks ==
    (HasTaskPlan(state) /\ NSteps(state) = 0)
        => /\ attempted = <<>>
           /\ io = NoUse
           /\ LastNode = "coder"
                 => (error = "none" /\ ReportsDone(out) /\ node = "END" /\ CoderRuns(trace) = 1)

\* a run on an empty TaskPlan has ended
C17_Witness ==
    /\ node = "END" /\ HasTaskPlan(state) /\ NSteps(state) = 0
    /\ Len(TaskPlanIn(state).plan.files) = 0

-----------------------------------------------------------------------------
(* C18 *)

\* C18: in every state of a run 0 <= current_step_idx <= N, and no step of the run
\* makes current_step_idx smaller.
C18_CursorInRange ==
    /\ [](HasTaskPlan(state) => (0 <= Cursor(state) /\ Cursor(state) <= NSteps(state)))
    /\ [][ HasTaskPlan(state) => Cursor(state') >= Cursor(state) ]_vars

\* the cursor stands at the end of a three-task list
C18_Witness ==
    /\ node = "coder" /\ HasTaskPlan(state)
    /\ NSteps(state) = 3 /\ Cursor(state) = 3

-----------------------------------------------------------------------------
(* C19 *)

\* C19: a call of coder_agent starts from cursor 0 only when its state has no
\* coder_state; otherwise it starts from the cursor of the coder_state it was
\* given and keeps that coder_state's task_plan, never missing state["task_plan"];
\* so the calls reach "DONE" also when each gets only the previous output.
C19_ExistingCoderStateUsed ==
    LastNode = "coder" =>
        /\ error # "KeyError"
        /\ last.entered = Cursor(given)
        /\ HasKey(given, "coder_state") => last.entered = given.coder_state.current_step_idx
        /\ error = "none" => out.coder_state.task_plan = TaskPlanIn(given)
        /\ (error = "none" /\ CoderRuns(trace) >= NSteps(state) + 1) => ReportsDone(out)

\* "DONE" reached over three tasks by calls that were given only coder_state
C19_Witness ==
    /\ ~merge /\ ReportsDone(out) /\ NSteps(state) = 3
    /\ DOMAIN given = {"coder_state"}

====
